---- MODULE Spec2Model ----
(***************************************************************************)
(* Model of the warp signing backend (package warp): warpBackend with its  *)
(* message database and LRU signature cache, and the noopBackend.          *)
(*                                                                         *)
(* Message bytes, hashes and signature shares are abstract values:         *)
(*   - the byte encoding of message m is the record [tag, payload];        *)
(*   - the hash is an injective map from byte strings to message IDs;      *)
(*   - the share of signer key k over message m is [signer, over].         *)
(* The cache is keyed by Go interface values, so a key carries its dynamic *)
(* type: ids.ID (a [32]byte array) or []byte (a slice).                    *)
(***************************************************************************)
EXTENDS Integers, Sequences, FiniteSets, TLC

\* ---------------------------------------------------------------- bounds
NumMsgs == 2
NumKeys == 2
CacheSize == 1

Msgs == 1..NumMsgs
Keys == 1..NumKeys

\* ------------------------------------------------------- messages, hashes
\* unsignedMessage.Bytes(): the byte encoding of a well-formed message.
Bytes(m) == [tag |-> "msg", payload |-> m]

\* Bytes no decoder accepts (a corrupted or foreign-format record).
Garbage(m) == [tag |-> "garbage", payload |-> m]

\* hashing.ComputeHash256Array: collision free on the modelled byte strings.
ComputeHash256Array(b) ==
    IF b.tag = "msg" THEN 100 + b.payload ELSE 200 + b.payload

\* teleporter.ParseUnsignedMessage: fails on bytes that are not an encoding.
ParseUnsignedMessage(b) ==
    IF b.tag = "msg" THEN [ok |-> TRUE, msg |-> b.payload]
                     ELSE [ok |-> FALSE, msg |-> 0]

MessageIDs == { ComputeHash256Array(Bytes(m)) : m \in Msgs }

\* ---------------------------------------------------------------- signer
NoSig == [signer |-> 0, over |-> 0]

\* snowCtx.TeleporterSigner.Sign with key k: deterministic in (k, m).
Sign(k, m) == [signer |-> k, over |-> m]

\* ------------------------------------------------------------- database
EmptyDB == [x \in {} |-> Bytes(0)]

dbHas(d, id) == id \in DOMAIN d

\* A Put that leaves only the record it writes.
dbPut_Truncating(d, id, b) == [x \in {id} |-> b]

\* db.Put: the record under id is written, every other one is kept.
dbPut(d, id, b) == [x \in (DOMAIN d) \cup {id} |-> IF x = id THEN b ELSE d[x]]

\* -------------------------------------------------------------- LRU cache
\* A cache is a sequence of [key, val] entries, most recently used first.
IDKey(id) == [kind |-> "ids.ID", h |-> id]
SliceKey(id) == [kind |-> "[]byte", h |-> id]

RECURSIVE Without(_, _)
Without(c, key) ==
    IF c = << >> THEN << >>
    ELSE IF Head(c).key = key THEN Without(Tail(c), key)
    ELSE << Head(c) >> \o Without(Tail(c), key)

lruHas(c, key) == \E i \in 1..Len(c) : c[i].key = key

lruVal(c, key) == (CHOOSE i \in 1..Len(c) : c[i].key = key)

\* cache.LRU.Get: a hit moves the entry to the front.
lruGet(c, key) ==
    IF lruHas(c, key)
    THEN [ok |-> TRUE, val |-> c[lruVal(c, key)].val,
          cache |-> << c[lruVal(c, key)] >> \o Without(c, key)]
    ELSE [ok |-> FALSE, val |-> NoSig, cache |-> c]

\* cache.LRU.Put: insert or refresh at the front, evict from the back.
lruPut(c, key, val, size) ==
    LET n == << [key |-> key, val |-> val] >> \o Without(c, key)
    IN  IF Len(n) > size THEN SubSeq(n, 1, size) ELSE n

\* What Put does when handed a []byte key. A slice is not a comparable Go
\* value: a cache indexed by a Go map panics at run time while hashing the
\* key; a cache that only stores the interface value files the entry under
\* a key no ids.ID lookup ever equals.
SliceKeyOutcomes == {"panic", "stored"}


\* ------------------------------------------------------------------ state
VARIABLES
    backend,     \* which WarpBackend implementation is running
    db,          \* warpBackend.db: messageID -> stored bytes
    cache,       \* warpBackend.signatureCache
    key,         \* the bls key behind snowCtx.TeleporterSigner
    last,        \* the most recent call and what it returned
    noted        \* one earlier call an observer chose to remember

vars == << backend, db, cache, key, last, noted >>

Call(op, arg, r) ==
    [op |-> op, arg |-> arg, outcome |-> r.outcome, sig |-> r.sig,
     events |-> r.events]

\* --------------------------------------------------- warpBackend handlers
\* AddMessage that signs and caches before it writes the store.
AddMessage_CacheFirst(d, c, k, m, putOK, signOK) ==
    LET messageID == ComputeHash256Array(Bytes(m)) IN
    IF ~signOK
    THEN [db |-> d, cache |-> c, outcome |-> "SigningError", sig |-> NoSig,
          events |-> << "Sign" >>]
    ELSE IF ~putOK
    THEN [db |-> d,
          cache |-> lruPut(c, IDKey(messageID), Sign(k, m), CacheSize),
          outcome |-> "StoreError", sig |-> NoSig,
          events |-> << "Sign", "cache.Put", "db.Put" >>]
    ELSE [db |-> dbPut(d, messageID, Bytes(m)),
          cache |-> lruPut(c, IDKey(messageID), Sign(k, m), CacheSize),
          outcome |-> "ok", sig |-> NoSig,
          events |-> << "Sign", "cache.Put", "db.Put" >>]

\* AddMessage that drops the error of db.Put and carries on.
AddMessage_IgnorePutError(d, c, k, m, putOK, signOK) ==
    LET messageID == ComputeHash256Array(Bytes(m))
        d2 == IF putOK THEN dbPut(d, messageID, Bytes(m)) ELSE d
    IN
    IF ~signOK
    THEN [db |-> d2, cache |-> c, outcome |-> "SigningError", sig |-> NoSig,
          events |-> << "db.Put", "Sign" >>]
    ELSE [db |-> d2,
          cache |-> lruPut(c, IDKey(messageID), Sign(k, m), CacheSize),
          outcome |-> "ok", sig |-> NoSig,
          events |-> << "db.Put", "Sign", "cache.Put" >>]

\* AddMessage that files the record under the hash of other bytes than the
\* ones it stores.
AddMessage_ForeignKey(d, c, k, m, putOK, signOK) ==
    LET messageID == ComputeHash256Array(Garbage(m)) IN
    IF ~putOK
    THEN [db |-> d, cache |-> c, outcome |-> "StoreError", sig |-> NoSig,
          events |-> << "db.Put" >>]
    ELSE IF ~signOK
    THEN [db |-> dbPut(d, messageID, Bytes(m)), cache |-> c,
          outcome |-> "SigningError", sig |-> NoSig,
          events |-> << "db.Put", "Sign" >>]
    ELSE [db |-> dbPut(d, messageID, Bytes(m)),
          cache |-> lruPut(c, IDKey(messageID), Sign(k, m), CacheSize),
          outcome |-> "ok", sig |-> NoSig,
          events |-> << "db.Put", "Sign", "cache.Put" >>]

\* warpBackend.AddMessage. putOK / signOK: whether db.Put and Sign succeed.
warpBackend_AddMessage(d, c, k, m, putOK, signOK) ==
    LET messageID == ComputeHash256Array(Bytes(m)) IN
    IF ~putOK
    THEN [db |-> d, cache |-> c, outcome |-> "StoreError", sig |-> NoSig,
          events |-> << "db.Put" >>]
    ELSE IF ~signOK
    THEN [db |-> dbPut(d, messageID, Bytes(m)), cache |-> c,
          outcome |-> "SigningError", sig |-> NoSig,
          events |-> << "db.Put", "Sign" >>]
    ELSE [db |-> dbPut(d, messageID, Bytes(m)),
          cache |-> lruPut(c, IDKey(messageID), Sign(k, m), CacheSize),
          outcome |-> "ok", sig |-> NoSig,
          events |-> << "db.Put", "Sign", "cache.Put" >>]

\* GetSignature that does not check the error of db.Get.
GetSignature_IgnoreGetError(d, c, k, messageID, signOK, slice) ==
    LET hit == lruGet(c, IDKey(messageID)) IN
    IF hit.ok
    THEN [cache |-> hit.cache, outcome |-> "ok", sig |-> hit.val,
          events |-> << "cache.Get" >>]
    ELSE LET parsed == IF dbHas(d, messageID)
                       THEN ParseUnsignedMessage(d[messageID])
                       ELSE [ok |-> FALSE, msg |-> 0] IN
    IF ~parsed.ok
    THEN [cache |-> c, outcome |-> "DecodeError", sig |-> NoSig,
          events |-> << "cache.Get", "db.Get", "Parse" >>]
    ELSE IF ~signOK
    THEN [cache |-> c, outcome |-> "SigningError", sig |-> NoSig,
          events |-> << "cache.Get", "db.Get", "Parse", "Sign" >>]
    ELSE IF slice = "panic"
    THEN [cache |-> c, outcome |-> "panic", sig |-> NoSig,
          events |-> << "cache.Get", "db.Get", "Parse", "Sign", "cache.Put" >>]
    ELSE [cache |-> lruPut(c, SliceKey(messageID), Sign(k, parsed.msg), CacheSize),
          outcome |-> "ok", sig |-> Sign(k, parsed.msg),
          events |-> << "cache.Get", "db.Get", "Parse", "Sign", "cache.Put" >>]

\* GetSignature that does not check the error of ParseUnsignedMessage and
\* signs whatever the parser left behind.
GetSignature_IgnoreParseError(d, c, k, messageID, signOK, slice) ==
    LET hit == lruGet(c, IDKey(messageID)) IN
    IF hit.ok
    THEN [cache |-> hit.cache, outcome |-> "ok", sig |-> hit.val,
          events |-> << "cache.Get" >>]
    ELSE IF ~dbHas(d, messageID)
    THEN [cache |-> c, outcome |-> "NotFoundError", sig |-> NoSig,
          events |-> << "cache.Get", "db.Get" >>]
    ELSE LET parsed == ParseUnsignedMessage(d[messageID]) IN
    IF ~signOK
    THEN [cache |-> c, outcome |-> "SigningError", sig |-> NoSig,
          events |-> << "cache.Get", "db.Get", "Parse", "Sign" >>]
    ELSE IF slice = "panic"
    THEN [cache |-> c, outcome |-> "panic", sig |-> NoSig,
          events |-> << "cache.Get", "db.Get", "Parse", "Sign", "cache.Put" >>]
    ELSE [cache |-> lruPut(c, SliceKey(messageID), Sign(k, parsed.msg), CacheSize),
          outcome |-> "ok", sig |-> Sign(k, parsed.msg),
          events |-> << "cache.Get", "db.Get", "Parse", "Sign", "cache.Put" >>]

\* warpBackend.GetSignature. slice: what the cache does with a []byte key.
warpBackend_GetSignature(d, c, k, messageID, signOK, slice) ==
    LET hit == lruGet(c, IDKey(messageID)) IN
    IF hit.ok
    THEN [cache |-> hit.cache, outcome |-> "ok", sig |-> hit.val,
          events |-> << "cache.Get" >>]
    ELSE IF ~dbHas(d, messageID)
    THEN [cache |-> c, outcome |-> "NotFoundError", sig |-> NoSig,
          events |-> << "cache.Get", "db.Get" >>]
    ELSE LET parsed == ParseUnsignedMessage(d[messageID]) IN
    IF ~parsed.ok
    THEN [cache |-> c, outcome |-> "DecodeError", sig |-> NoSig,
          events |-> << "cache.Get", "db.Get", "Parse" >>]
    ELSE IF ~signOK
    THEN [cache |-> c, outcome |-> "SigningError", sig |-> NoSig,
          events |-> << "cache.Get", "db.Get", "Parse", "Sign" >>]
    ELSE IF slice = "panic"
    THEN [cache |-> c, outcome |-> "panic", sig |-> NoSig,
          events |-> << "cache.Get", "db.Get", "Parse", "Sign", "cache.Put" >>]
    ELSE [cache |-> lruPut(c, SliceKey(messageID), Sign(k, parsed.msg), CacheSize),
          outcome |-> "ok", sig |-> Sign(k, parsed.msg),
          events |-> << "cache.Get", "db.Get", "Parse", "Sign", "cache.Put" >>]

\* NewWarpBackend that keeps the signature cache of the previous run.
NewWarpBackend_KeepCache(d, k) == [db |-> d, cache |-> cache, key |-> k]

\* NewWarpBackend on a node (re)start: a fresh cache over the database the
\* node is handed, which is kept with its contents; the signer may hold a
\* new bls key.
NewWarpBackend(d, k) == [db |-> d, cache |-> << >>, key |-> k]

\* ----------------------------------------------------- noopBackend handlers
noopBackend_AddMessage(m) ==
    [outcome |-> "ok", sig |-> NoSig, events |-> << >>]

\* A no-op GetSignature that reports the message as missing.
noopBackend_GetSignature_NotFound(messageHash) ==
    [outcome |-> "NotFoundError", sig |-> NoSig, events |-> << >>]

noopBackend_GetSignature(messageHash) ==
    [outcome |-> "ok", sig |-> NoSig, events |-> << >>]

\* --------------------------------------------------------------- observer
\* The observer remembers at most one earlier call: an AddMessage that was
\* accepted or failed to sign, or a GetSignature that returned a share. It
\* records the key current at that call and whether the node has restarted
\* since.
NoCall == [op |-> "none", arg |-> 0, outcome |-> "ok", sig |-> NoSig,
           key |-> 0, restarted |-> FALSE]

Note(c, k) == [op |-> c.op, arg |-> c.arg, outcome |-> c.outcome,
               sig |-> c.sig, key |-> k, restarted |-> FALSE]

Notable(c) ==
    \/ c.op = "AddMessage" /\ c.outcome \in {"ok", "SigningError"}
    \/ c.op = "GetSignature" /\ c.outcome = "ok"

Observe(c, k) == IF Notable(c) THEN {noted, Note(c, k)} ELSE {noted}

MsgID(m) == ComputeHash256Array(Bytes(m))

\* ============================================================ relay session
\* GetWarpReceiveTxSequences wires one relay session: a share channel, one
\* relay client per configured endpoint and one aggregator (warp relay).
\* The relay client and the aggregator are other files of package load;
\* their behaviour is taken from the design description.

\* Bounds of the session: configured endpoints, messages sent on subnet A.
NumEndpoints == 5
NumRelayMsgs == 1

\* Positions in the endpoints slice, as Go counts them.
Endpoints == 0..(NumEndpoints - 1)
RelayMsgs == 1..NumRelayMsgs
NoClient == 0 - 1

\* A threshold no session of the configured endpoints can reach.
Threshold_TooHigh == NumEndpoints + 1

\* threshold := uint64(4)
Threshold == 4

\* ch := make(chan warpSignature): the capacity of the share channel.
ChanCap == 0

\* A send on a lossy channel: it always completes, and the value is gone
\* when nobody receives it.
ChanSend_Lossy(queued, receiving) == TRUE

\* ch <- share: the send completes when the buffer has room or the
\* receiver is waiting in a receive; otherwise the sender blocks.
ChanSend(queued, receiving) == queued < ChanCap \/ receiving

\* Every client is handed the same index.
ValidatorIndex_Same(i) == 0

\* Neighbouring endpoints are handed the same index.
ValidatorIndex_Halved(i) == i \div 2

\* NewWarpRelayClient(ctx, client, warpClient, ch, i): the validatorIndex
\* handed to the client of endpoint i.
ValidatorIndex(i) == i

VARIABLES
    setup,       \* GetWarpReceiveTxSequences: [pc, i] of the running call
    vindex,      \* started relay clients: endpoint position -> validatorIndex
    down,        \* the client whose endpoint became unreachable, or NoClient
    sent,        \* per client, the messages whose share it finished sending
    agg,         \* the aggregator loop: "none", "running" or "exited"
    recorded,    \* aggregator: message -> validatorIndex -> shares recorded
    complete,    \* aggregator: messages that reached Complete
    emitted,     \* aggregates published on the output queue, in order
    ending,      \* how the session was ended: "none", "cancelled", "closed"
    reported,    \* what the aggregator loop reported to its caller on exit
    redelivered  \* the step just taken sent again the share of a Collecting message

rvars == << setup, vindex, down, sent, agg, recorded, complete, emitted,
            ending, reported, redelivered >>

NoShares == [v \in Endpoints |-> 0]

\* The session before GetWarpReceiveTxSequences has done anything.
RelayIdle ==
    /\ setup = [pc |-> "dial", i |-> 0]
    /\ vindex = [c \in {} |-> 0]
    /\ down = NoClient
    /\ sent = [c \in Endpoints |-> {}]
    /\ agg = "none"
    /\ recorded = [m \in RelayMsgs |-> NoShares]
    /\ complete = {}
    /\ emitted = << >>
    /\ ending = "none"
    /\ reported = {}
    /\ redelivered = FALSE

\* ========================================================= concurrent calls
\* Calls of several goroutines on one warpBackend, interleaved between the
\* operations on the shared database and cache.
NumThreads == 2
Threads == 1..NumThreads

VARIABLES
    thr          \* per goroutine: the running call and its next operation

Idle == [op |-> "idle", arg |-> 0, pc |-> 0, sig |-> NoSig]

\* ============================================================= workers
\* The tx sequences of the workers, each receiving from an output stream of
\* the aggregator.
NumWorkers == 2
Workers == 1..NumWorkers

\* A wiring that hands every worker an output stream of its own.
SignedMessagesOf_Own(w) == w

\* The output stream worker w is constructed with: warpRelay.signedMessages,
\* the same one for every worker. Streams are numbered; 0 is signedMessages.
SignedMessagesOf(w) == 0

Streams == 0..NumWorkers

VARIABLES
    cursor,      \* per output stream, how many published aggregates were taken
    received     \* per worker, the aggregates it received

ovars == << cursor, received >>

WorkersIdle ==
    /\ cursor = [s \in Streams |-> 0]
    /\ received = [w \in Workers |-> {}]

\* ---------------------------------------------------------------- actions
Init ==
    /\ backend \in {"warp", "noop"}
    /\ db = EmptyDB
    /\ cache = << >>
    /\ key = 1
    /\ last = [op |-> "New", arg |-> 0, outcome |-> "ok", sig |-> NoSig,
               events |-> << >>]
    /\ noted = NoCall
    /\ RelayIdle
    /\ thr = [t \in Threads |-> Idle]
    /\ WorkersIdle

AddMessage ==
    /\ backend = "warp"
    /\ \E m \in Msgs, putOK \in BOOLEAN, signOK \in BOOLEAN :
         LET r == warpBackend_AddMessage(db, cache, key, m, putOK, signOK) IN
         /\ db' = r.db
         /\ cache' = r.cache
         /\ last' = Call("AddMessage", m, r)
    /\ noted' \in Observe(last', key)
    /\ UNCHANGED << backend, key >>
    /\ UNCHANGED << rvars, thr, ovars >>

GetSignature ==
    /\ backend = "warp"
    /\ \E id \in MessageIDs, signOK \in BOOLEAN, slice \in SliceKeyOutcomes :
         LET r == warpBackend_GetSignature(db, cache, key, id, signOK, slice) IN
         /\ cache' = r.cache
         /\ last' = Call("GetSignature", id, r)
    /\ noted' \in Observe(last', key)
    /\ UNCHANGED << backend, db, key >>
    /\ UNCHANGED << rvars, thr, ovars >>

\* The database a restarted node opens: the records as they were written,
\* or with one of them unreadable (corruption, or a format the running
\* version no longer decodes).
Reopened(d) ==
    {d} \cup { [d EXCEPT ![id] = Garbage(d[id].payload)] : id \in DOMAIN d }

Restart ==
    /\ backend = "warp"
    /\ \E k \in Keys, d \in Reopened(db) :
         LET w == NewWarpBackend(d, k) IN
         /\ db' = w.db
         /\ cache' = w.cache
         /\ key' = w.key
    /\ last' = [op |-> "Restart", arg |-> 0, outcome |-> "ok", sig |-> NoSig,
                events |-> << >>]
    /\ noted' = IF noted = NoCall THEN noted
                ELSE [noted EXCEPT !.restarted = TRUE]
    /\ UNCHANGED backend
    /\ UNCHANGED << rvars, thr, ovars >>

NoopAddMessage ==
    /\ backend = "noop"
    /\ \E m \in Msgs :
         last' = Call("AddMessage", m, noopBackend_AddMessage(m))
    /\ noted' \in Observe(last', key)
    /\ UNCHANGED << backend, db, cache, key >>
    /\ UNCHANGED << rvars, thr, ovars >>

NoopGetSignature ==
    /\ backend = "noop"
    /\ \E id \in MessageIDs :
         last' = Call("GetSignature", id, noopBackend_GetSignature(id))
    /\ UNCHANGED << backend, db, cache, key, noted >>
    /\ UNCHANGED << rvars, thr, ovars >>

Next ==
    \/ AddMessage
    \/ GetSignature
    \/ Restart
    \/ NoopAddMessage
    \/ NoopGetSignature

Spec == Init /\ [][Next]_vars


\* ------------------------------------------------------------- vocabulary
Events(c) == { c.events[i] : i \in 1..Len(c.events) }

Pos(c, e) == CHOOSE i \in 1..Len(c.events) : c.events[i] = e

\* The record stored under the ID of m is the encoding of m.
Intact(d, m) == dbHas(d, MsgID(m)) /\ d[MsgID(m)] = Bytes(m)

\* The cache holds an entry for id, under whichever key type.
Cached(c, id) == lruHas(c, IDKey(id)) \/ lruHas(c, SliceKey(id))

\* GetSignature(id) was the latest call, for the message the observer noted.
GotNoted == /\ backend = "warp"
            /\ last.op = "GetSignature"
            /\ noted.op = "AddMessage"
            /\ last.arg = MsgID(noted.arg)

\* ------------------------------------------------------------------ C1
\* C1: after AddMessage(m) was accepted, and whatever AddMessage and
\* GetSignature calls came in between, GetSignature(id(m)) with a working
\* signer returns, without error, the share of the current key over m.
C1_AddThenGetReturnsShare ==
    (GotNoted /\ noted.outcome = "ok" /\ ~noted.restarted
              /\ last.outcome # "SigningError")
        => (last.outcome = "ok" /\ last.sig = Sign(key, noted.arg))

\* ------------------------------------------------------------------ C2
\* C2: persist-before-cache. An AddMessage whose store write fails returns
\* an error without invoking the signer and leaves cache and store as they
\* were; in every AddMessage the store write comes first, before any cache
\* insertion, and an accepted message is in the store when it is cached.
C2_PersistBeforeCache ==
    [][ (backend = "warp" /\ last'.op = "AddMessage") =>
          /\ last'.events[1] = "db.Put"
          /\ "cache.Put" \in Events(last')
                => Pos(last', "db.Put") < Pos(last', "cache.Put")
          /\ last'.outcome = "StoreError"
                => /\ ~ ("Sign" \in Events(last'))
                   /\ ~ ("cache.Put" \in Events(last'))
                   /\ cache' = cache
                   /\ db' = db
          /\ (cache' # cache \/ last'.outcome = "ok")
                => /\ last'.outcome = "ok"
                   /\ Intact(db', last'.arg)
                   /\ lruHas(cache', IDKey(MsgID(last'.arg)))
      ]_vars

C2_Witness ==
    /\ backend = "warp"
    /\ last.op = "AddMessage"
    /\ last.outcome = "StoreError"
    /\ cache # << >>
    /\ ~ dbHas(db, MsgID(last.arg))

\* ------------------------------------------------------------------ C3
\* C3: in every reachable state every message ID with a cache entry has a
\* record in the store, and the cached share is the share of the current
\* key over the message that record decodes to.
C3_CacheReproducible ==
    \A i \in 1..Len(cache) :
        LET id == cache[i].key.h IN
        /\ dbHas(db, id)
        /\ ParseUnsignedMessage(db[id]).ok
        /\ cache[i].val = Sign(key, ParseUnsignedMessage(db[id]).msg)

C3_Witness ==
    /\ cache # << >>
    /\ key # 1
    /\ \E id \in DOMAIN db : ~ Cached(cache, id)

\* ------------------------------------------------------------------ C4
\* C4: after a restart, GetSignature(id) for a message added before the
\* restart, whose record is in the store, returns the share of the current
\* key over the stored message.
C4_GetAfterRestart ==
    (GotNoted /\ noted.outcome = "ok" /\ noted.restarted
              /\ Intact(db, noted.arg) /\ last.outcome # "SigningError")
        => (last.outcome = "ok" /\ last.sig = Sign(key, noted.arg))

\* ------------------------------------------------------------------ C5
\* C5: a GetSignature(id) that misses the cache, reads the record and signs
\* it returns the share and leaves a cache entry under the key GetSignature
\* looks up, so the next GetSignature(id) is a cache hit.
C5_MissRepopulatesCache ==
    [][ (/\ backend = "warp"
         /\ last'.op = "GetSignature"
         /\ "Sign" \in Events(last')
         /\ last'.outcome # "SigningError")
          => /\ last'.outcome = "ok"
             /\ lruHas(cache', IDKey(last'.arg))
      ]_vars

C7_NotFound ==
    [][ (/\ backend = "warp"
         /\ last'.op = "GetSignature"
         /\ ~ Cached(cache, last'.arg)
         /\ ~ dbHas(db, last'.arg))
          => /\ last'.outcome = "NotFoundError"
             /\ last'.sig = NoSig
             /\ cache' = cache
             /\ db' = db
      ]_vars

C7_Witness ==
    /\ backend = "warp"
    /\ last.op = "GetSignature"
    /\ last.outcome = "NotFoundError"
    /\ cache # << >>
    /\ DOMAIN db # {}

\* ------------------------------------------------------------------ C8
\* C8: an AddMessage(m) whose signer fails returns an error, leaves the
\* bytes of m in the store under id(m) and creates no cache entry for it;
\* a later GetSignature(id(m)) with a working signer returns the share of
\* the current key over m.
C8_SignFailureThenLazySign ==
    [][ /\ (/\ backend = "warp"
            /\ last'.op = "AddMessage"
            /\ "Sign" \in Events(last')
            /\ ~ ("cache.Put" \in Events(last')))
             => /\ last'.outcome = "SigningError"
                /\ Intact(db', last'.arg)
                /\ Cached(cache', MsgID(last'.arg))
                      => Cached(cache, MsgID(last'.arg))
        /\ (/\ backend = "warp"
            /\ last'.op = "GetSignature"
            /\ noted'.op = "AddMessage" /\ noted'.outcome = "SigningError"
            /\ last'.arg = MsgID(noted'.arg)
            /\ Intact(db', noted'.arg)
            /\ last'.outcome # "SigningError")
             => /\ last'.outcome = "ok"
                /\ last'.sig = Sign(key', noted'.arg)
      ]_vars

\* ------------------------------------------------------------------ C9
\* C9: when the record under id does not decode, a GetSignature(id) that
\* misses the cache returns an error and no share, does not invoke the
\* signer and inserts nothing into the cache.
C9_DecodeError ==
    [][ (/\ backend = "warp"
         /\ last'.op = "GetSignature"
         /\ ~ lruHas(cache, IDKey(last'.arg))
         /\ dbHas(db, last'.arg)
         /\ ~ ParseUnsignedMessage(db[last'.arg]).ok)
          => /\ last'.outcome = "DecodeError"
             /\ last'.sig = NoSig
             /\ ~ ("Sign" \in Events(last'))
             /\ cache' = cache
      ]_vars

C9_Witness ==
    /\ backend = "warp"
    /\ last.op = "GetSignature"
    /\ last.outcome = "DecodeError"
    /\ dbHas(db, last.arg)
    /\ cache # << >>

\* ----------------------------------------------------------------- C10
\* C10: on the no-op backend every AddMessage returns no error and every
\* GetSignature returns no share and no error, whatever was added before;
\* nothing is stored or cached.
C10_NoopBackend ==
    backend = "noop" =>
        /\ last.outcome = "ok"
        /\ last.sig = NoSig
        /\ db = EmptyDB
        /\ cache = << >>

C10_Witness ==
    /\ backend = "noop"
    /\ last.op = "GetSignature"
    /\ noted.op = "AddMessage" /\ noted.outcome = "ok"
    /\ last.arg = MsgID(noted.arg)

\* ============================================================ relay session
\* ------------------------------------------------------------- aggregator
RECURSIVE Total(_, _)
Total(r, S) ==
    IF S = {} THEN 0
    ELSE LET v == CHOOSE x \in S : TRUE IN r[v] + Total(r, S \ {v})

\* Shares recorded for one message, and the validators they came from.
Shares(r) == Total(r, DOMAIN r)
Signers(r) == { v \in DOMAIN r : r[v] > 0 }

Aggregate(m, r) == [id |-> m, signers |-> Signers(r)]

\* An aggregator that counts every arriving share, whoever sent it.
WarpRelay_OnShare_NoDedup(rec, done, out, threshold, m, v) ==
    IF m \in done
    THEN [recorded |-> rec, complete |-> done, emitted |-> out]
    ELSE LET rec2 == [rec EXCEPT ![m][v] = @ + 1] IN
         IF Shares(rec2[m]) >= threshold
         THEN [recorded |-> rec2, complete |-> done \cup {m},
               emitted |-> Append(out, Aggregate(m, rec2[m]))]
         ELSE [recorded |-> rec2, complete |-> done, emitted |-> out]

\* An aggregator that publishes again for every share at or past threshold.
WarpRelay_OnShare_EmitAgain(rec, done, out, threshold, m, v) ==
    IF rec[m][v] > 0
    THEN [recorded |-> rec, complete |-> done, emitted |-> out]
    ELSE LET rec2 == [rec EXCEPT ![m][v] = 1] IN
         IF Cardinality(Signers(rec2[m])) >= threshold
         THEN [recorded |-> rec2, complete |-> done \cup {m},
               emitted |-> Append(out, Aggregate(m, rec2[m]))]
         ELSE [recorded |-> rec2, complete |-> done, emitted |-> out]

\* An aggregator that publishes one share early.
WarpRelay_OnShare_Early(rec, done, out, threshold, m, v) ==
    IF m \in done
    THEN [recorded |-> rec, complete |-> done, emitted |-> out]
    ELSE IF rec[m][v] > 0
    THEN [recorded |-> rec, complete |-> done, emitted |-> out]
    ELSE LET rec2 == [rec EXCEPT ![m][v] = 1] IN
         IF Cardinality(Signers(rec2[m])) + 1 >= threshold
         THEN [recorded |-> rec2, complete |-> done \cup {m},
               emitted |-> Append(out, Aggregate(m, rec2[m]))]
         ELSE [recorded |-> rec2, complete |-> done, emitted |-> out]

\* One turn of the aggregation loop on the event (m, v, share): discard it
\* when m is Complete or v already has a share for m; else record it and,
\* when the distinct shares reach the threshold, publish the aggregate.
WarpRelay_OnShare(rec, done, out, threshold, m, v) ==
    IF m \in done
    THEN [recorded |-> rec, complete |-> done, emitted |-> out]
    ELSE IF rec[m][v] > 0
    THEN [recorded |-> rec, complete |-> done, emitted |-> out]
    ELSE LET rec2 == [rec EXCEPT ![m][v] = 1] IN
         IF Cardinality(Signers(rec2[m])) >= threshold
         THEN [recorded |-> rec2, complete |-> done \cup {m},
               emitted |-> Append(out, Aggregate(m, rec2[m]))]
         ELSE [recorded |-> rec2, complete |-> done, emitted |-> out]

\* An aggregator that reports nothing when its loop exits.
WarpRelay_Incomplete_Dropped(rec, done) == {}

\* What the loop hands back on exit: the messages still Collecting, each
\* with its share count.
WarpRelay_Incomplete(rec, done) ==
    { [id |-> m, shares |-> Cardinality(Signers(rec[m]))] :
        m \in { x \in DOMAIN rec : x \notin done /\ Signers(rec[x]) # {} } }

\* ---------------------------------------------------------- relay actions
RelayInit ==
    /\ Init
    /\ backend = "warp"

\* for i, clientURI := range endpoints { ethclient.Dial(clientURI) ... }
DialEndpoints ==
    /\ setup.pc = "dial"
    /\ \E ok \in BOOLEAN :
         setup' = IF ok THEN [pc |-> "create", i |-> 0]
                        ELSE [pc |-> "failed", i |-> 0]
    /\ UNCHANGED << vindex, down, sent, agg, recorded, complete, emitted,
                    ending, reported >>
    /\ redelivered' = FALSE
    /\ UNCHANGED << vars, thr, ovars >>

\* One turn of the second loop: warp.NewWarpClient, which may fail, then
\* NewWarpRelayClient, which starts the client of endpoint i.
StartClient ==
    /\ setup.pc = "create"
    /\ setup.i < NumEndpoints
    /\ \E ok \in BOOLEAN :
         IF ok
         THEN /\ vindex' = [c \in (DOMAIN vindex) \cup {setup.i} |->
                              IF c = setup.i THEN ValidatorIndex(setup.i)
                                             ELSE vindex[c]]
              /\ setup' = [pc |-> "create", i |-> setup.i + 1]
         ELSE /\ vindex' = vindex
              /\ setup' = [pc |-> "failed", i |-> setup.i]
    /\ UNCHANGED << down, sent, agg, recorded, complete, emitted, ending,
                    reported >>
    /\ redelivered' = FALSE
    /\ UNCHANGED << vars, thr, ovars >>

\* NewWarpRelay(ctx, threshold, ch, expectedMessages) and the return.
StartRelay ==
    /\ setup.pc = "create"
    /\ setup.i = NumEndpoints
    /\ setup' = [pc |-> "done", i |-> setup.i]
    /\ agg' = "running"
    /\ UNCHANGED << vindex, down, sent, recorded, complete, emitted, ending,
                    reported >>
    /\ redelivered' = FALSE
    /\ UNCHANGED << vars, thr, ovars >>

\* Client c sends the share of its validator for message m on ch, and the
\* aggregation loop, when it is the one receiving, takes its turn on it.
Deliver(c, m) ==
    /\ c \in DOMAIN vindex
    /\ c # down
    /\ ending = "none"
    /\ ChanSend(0, agg = "running")
    /\ sent' = [sent EXCEPT ![c] = @ \cup {m}]
    /\ IF agg = "running"
       THEN LET r == WarpRelay_OnShare(recorded, complete, emitted,
                                       Threshold, m, vindex[c]) IN
            /\ recorded' = r.recorded
            /\ complete' = r.complete
            /\ emitted' = r.emitted
       ELSE UNCHANGED << recorded, complete, emitted >>
    /\ redelivered' = (m \in sent[c] /\ m \notin complete)
    /\ UNCHANGED << setup, vindex, down, agg, ending, reported >>
    /\ UNCHANGED << vars, thr, ovars >>

DeliverShare == \E c \in Endpoints, m \in RelayMsgs : Deliver(c, m)

\* The endpoint of one client becomes unreachable: it delivers no more.
EndpointDown ==
    /\ down = NoClient
    /\ ending = "none"
    /\ \E c \in DOMAIN vindex : down' = c
    /\ UNCHANGED << setup, vindex, sent, agg, recorded, complete, emitted,
                    ending, reported >>
    /\ redelivered' = FALSE
    /\ UNCHANGED << vars, thr, ovars >>

\* The aggregation loop leaves with its report.
LoopExit ==
    /\ agg' = "exited"
    /\ reported' = WarpRelay_Incomplete(recorded, complete)

\* The caller cancels ctx: the clients stop, and a running aggregation loop,
\* with nothing left in the channel, exits.
Cancel ==
    /\ ending = "none"
    /\ ending' = "cancelled"
    /\ IF agg = "running" THEN LoopExit ELSE UNCHANGED << agg, reported >>
    /\ UNCHANGED << setup, vindex, down, sent, recorded, complete, emitted >>
    /\ redelivered' = FALSE
    /\ UNCHANGED << vars, thr, ovars >>

\* The share channel is closed: the aggregation loop, with nothing left in
\* the channel, exits.
CloseChannel ==
    /\ ending = "none"
    /\ agg = "running"
    /\ ending' = "closed"
    /\ LoopExit
    /\ UNCHANGED << setup, vindex, down, sent, recorded, complete, emitted >>
    /\ redelivered' = FALSE
    /\ UNCHANGED << vars, thr, ovars >>

\* An aggregation loop started on a context already cancelled exits at once.
ExitLoop ==
    /\ agg = "running"
    /\ ending # "none"
    /\ LoopExit
    /\ UNCHANGED << setup, vindex, down, sent, recorded, complete, emitted,
                    ending >>
    /\ redelivered' = FALSE
    /\ UNCHANGED << vars, thr, ovars >>

RelayNext ==
    \/ DialEndpoints
    \/ StartClient
    \/ StartRelay
    \/ DeliverShare
    \/ EndpointDown
    \/ Cancel
    \/ CloseChannel
    \/ ExitLoop

RelaySpec == RelayInit /\ [][RelayNext]_rvars

\* A client gets into the channel a share it has not sent before.
DeliverFresh ==
    \E c \in Endpoints, m \in RelayMsgs : m \notin sent[c] /\ Deliver(c, m)

\* While some client that is up can deliver a share it has not delivered
\* yet, such a delivery eventually happens: clients and loop keep running.
FairRelaySpec ==
    /\ RelaySpec
    /\ WF_rvars(DeliverFresh)

\* ------------------------------------------------------- relay vocabulary
\* How often an aggregate for m sits in a sequence of published aggregates.
Published(out, m) == Cardinality({ i \in 1..Len(out) : out[i].id = m })

\* The distinct validators with a recorded share for m.
Distinct(rec, m) == Cardinality(Signers(rec[m]))

Collecting(m) == m \notin complete /\ Signers(recorded[m]) # {}

\* ----------------------------------------------------------------- C11
\* C11: whatever shares arrive, duplicates and late ones included, the
\* aggregate of a message is published at most once; and once all the
\* clients of the session (5, with threshold 4) delivered their share of a
\* message, exactly one aggregate for it is on the output queue.
C11_AggregateAtMostOnce ==
    \A m \in RelayMsgs :
        /\ Published(emitted, m) <= 1
        /\ (\A c \in Endpoints : m \in sent[c]) => Published(emitted, m) = 1

C11_Witness ==
    \E m \in RelayMsgs :
        /\ \A c \in Endpoints : m \in sent[c]
        /\ Published(emitted, m) = 1
        /\ \E c \in Endpoints : recorded[m][vindex[c]] = 0

\* ----------------------------------------------------------------- C12
\* C12: the aggregate of a message is published in the very step in which
\* its distinct recorded shares reach the threshold, never before; every
\* published aggregate has at least threshold distinct shares behind it.
C12_EmitAtThreshold ==
    [][ \A m \in RelayMsgs :
          /\ (Published(emitted', m) > Published(emitted, m))
                <=> (/\ Distinct(recorded, m) < Threshold
                     /\ Distinct(recorded', m) >= Threshold)
          /\ Published(emitted', m) > 0
                => /\ Distinct(recorded', m) >= Threshold
                   /\ \A i \in 1..Len(emitted') :
                        emitted'[i].id = m
                          => /\ Cardinality(emitted'[i].signers) >= Threshold
                             /\ emitted'[i].signers = Signers(recorded'[m])
      ]_rvars

C12_Witness ==
    /\ agg = "running"
    /\ Len(emitted) > 0
    /\ \A i \in 1..Len(emitted) :
         Cardinality(emitted[i].signers) = Threshold

\* ----------------------------------------------------------------- C13
\* C13: a share delivered a second time changes nothing: a step in which
\* no client delivers a share it had not delivered before leaves the
\* aggregation state as it was, and no validator index ever has more than
\* one share recorded for a message.
C13_DuplicateIsNoop ==
    [][ /\ sent' = sent
          => /\ recorded' = recorded
             /\ complete' = complete
             /\ emitted' = emitted
        /\ \A m \in RelayMsgs :
             /\ \A v \in Endpoints : recorded'[m][v] <= 1
             /\ Shares(recorded'[m]) = Distinct(recorded', m)
             /\ Distinct(recorded', m)
                  <= Cardinality({ c \in Endpoints : m \in sent'[c] })
      ]_rvars

C13_Witness ==
    /\ redelivered
    /\ complete = {}
    /\ \E m \in RelayMsgs :
         Distinct(recorded, m) = Cardinality({ c \in Endpoints : m \in sent[c] })
           /\ Distinct(recorded, m) > 0

\* ----------------------------------------------------------------- C14
\* C14: once one client has gone down and at least threshold clients are
\* left, every message reaches Complete unless the session is ended first;
\* and a loop that exits after a cancellation reports every message that
\* has a share and is not Complete.
C14_SurvivesOneClientDown ==
    /\ (/\ agg = "running"
        /\ down # NoClient
        /\ Cardinality((DOMAIN vindex) \ {down}) >= Threshold)
          ~> (complete = RelayMsgs \/ ending # "none")
    /\ [](agg = "exited" /\ ending = "cancelled"
            => \A m \in RelayMsgs :
                 Collecting(m) => \E r \in reported : r.id = m)

C14_Witness ==
    /\ down # NoClient
    /\ \E m \in complete : m \notin sent[down]
    /\ ending = "none"

C16_NoShareLost ==
    \A c \in DOMAIN vindex :
        \A m \in sent[c] : recorded[m][vindex[c]] > 0 \/ m \in complete

C16_Witness ==
    /\ agg = "exited"
    /\ \E c \in DOMAIN vindex, m \in RelayMsgs : m \in sent[c]
    /\ \E c \in DOMAIN vindex, m \in RelayMsgs : c # down /\ m \notin sent[c]

\* ----------------------------------------------------------------- C20
\* C20: the clients of a session have pairwise different validator
\* indices, and the index of a started client never changes.
C20_DistinctStableIndex ==
    [][ /\ \A c1, c2 \in DOMAIN vindex' :
             c1 # c2 => vindex'[c1] # vindex'[c2]
        /\ \A c \in DOMAIN vindex :
             c \in DOMAIN vindex' /\ vindex'[c] = vindex[c]
      ]_rvars

C20_Witness ==
    /\ Cardinality(DOMAIN vindex) = NumEndpoints
    /\ \E m \in RelayMsgs, c1, c2 \in DOMAIN vindex :
         /\ c1 # c2
         /\ recorded[m][vindex[c1]] > 0
         /\ recorded[m][vindex[c2]] > 0

\* ========================================================= concurrent calls
\* AddMessage that fills the cache before it writes the database.
AddMessageOps_CacheFirst == << "cache.Put", "db.Put" >>

\* The operations of AddMessage on shared state, in program order. The
\* signature is computed, locally, right before it is cached.
AddMessageOps == << "db.Put", "cache.Put" >>

\* The operations of GetSignature on shared state, in program order. The
\* bytes read by db.Get are parsed and signed, locally, right after it.
GetSignatureOps == << "cache.Get", "db.Get", "cache.Put" >>

OpsOf(op) == IF op = "AddMessage" THEN AddMessageOps ELSE GetSignatureOps

Returned(outcome, sig) == [outcome |-> outcome, sig |-> sig, events |-> << >>]

ConcInit ==
    /\ Init
    /\ backend = "warp"

\* The call goroutine t is in: the one under way, or, when t is idle, any
\* call it may start now (a call starts with its first operation).
Running(t, op, args) ==
    IF thr[t].op = "idle"
    THEN {[op |-> op, arg |-> x, pc |-> 1, sig |-> NoSig] : x \in args}
    ELSE IF thr[t].op = op THEN {thr[t]} ELSE {}

\* The call c of t returns: its result becomes the latest one.
Return(t, c, outcome, sig) ==
    /\ thr' = [thr EXCEPT ![t] = Idle]
    /\ last' = Call(c.op, c.arg, Returned(outcome, sig))

\* The call c of t moves past its current operation, returning after the last.
Advance(t, c, sig, ret) ==
    IF c.pc = Len(OpsOf(c.op))
    THEN Return(t, c, "ok", ret)
    ELSE /\ thr' = [thr EXCEPT ![t] = [c EXCEPT !.pc = @ + 1, !.sig = sig]]
         /\ last' = last

\* The next operation of an AddMessage call.
AddMessageStep ==
    /\ \E t \in Threads : \E c \in Running(t, "AddMessage", Msgs) :
         LET m == c.arg
             messageID == ComputeHash256Array(Bytes(m))
             o == AddMessageOps[c.pc]
         IN
         \/ /\ o = "db.Put"
            /\ \E putOK \in BOOLEAN :
                 IF putOK
                 THEN /\ db' = dbPut(db, messageID, Bytes(m))
                      /\ Advance(t, c, c.sig, NoSig)
                 ELSE /\ db' = db
                      /\ Return(t, c, "StoreError", NoSig)
            /\ cache' = cache
         \/ /\ o = "cache.Put"
            /\ \E signOK \in BOOLEAN :
                 IF signOK
                 THEN /\ cache' = lruPut(cache, IDKey(messageID),
                                         Sign(key, m), CacheSize)
                      /\ Advance(t, c, Sign(key, m), NoSig)
                 ELSE /\ cache' = cache
                      /\ Return(t, c, "SigningError", NoSig)
            /\ db' = db
    /\ UNCHANGED << backend, key, noted, rvars, ovars >>

\* The next operation of a GetSignature call.
GetSignatureStep ==
    /\ \E t \in Threads : \E c \in Running(t, "GetSignature", MessageIDs) :
         LET id == c.arg
             o == GetSignatureOps[c.pc]
         IN
         \/ /\ o = "cache.Get"
            /\ LET hit == lruGet(cache, IDKey(id)) IN
               IF hit.ok
               THEN /\ cache' = hit.cache
                    /\ Return(t, c, "ok", hit.val)
               ELSE /\ cache' = cache
                    /\ Advance(t, c, NoSig, NoSig)
         \/ /\ o = "db.Get"
            /\ cache' = cache
            /\ IF ~dbHas(db, id)
               THEN Return(t, c, "NotFoundError", NoSig)
               ELSE LET parsed == ParseUnsignedMessage(db[id]) IN
                    IF ~parsed.ok
                    THEN Return(t, c, "DecodeError", NoSig)
                    ELSE \E signOK \in BOOLEAN :
                           IF signOK
                           THEN Advance(t, c, Sign(key, parsed.msg), NoSig)
                           ELSE Return(t, c, "SigningError", NoSig)
         \/ /\ o = "cache.Put"
            /\ \E slice \in SliceKeyOutcomes :
                 IF slice = "panic"
                 THEN /\ cache' = cache
                      /\ Return(t, c, "panic", NoSig)
                 ELSE /\ cache' = lruPut(cache, SliceKey(id), c.sig,
                                         CacheSize)
                      /\ Advance(t, c, c.sig, c.sig)
    /\ UNCHANGED << backend, db, key, noted, rvars, ovars >>

ConcNext ==
    \/ AddMessageStep
    \/ GetSignatureStep

cvars == << vars, thr >>

ConcSpec == ConcInit /\ [][ConcNext]_cvars

\* ------------------------------------------------------------------ C17
\* C17: the cache never holds more than CacheSize entries, and a
\* GetSignature(id) for a message added since the last start whose cache
\* entry has been evicted re-signs the stored record and returns the share.
C17_BoundedCacheStillServes ==
    [][ /\ Len(cache') <= CacheSize
        /\ (/\ backend = "warp"
            /\ last'.op = "GetSignature"
            /\ noted'.op = "AddMessage" /\ noted'.outcome = "ok"
            /\ ~ noted'.restarted
            /\ last'.arg = MsgID(noted'.arg)
            /\ Intact(db, noted'.arg)
            /\ ~ lruHas(cache, IDKey(last'.arg))
            /\ last'.outcome # "SigningError")
             => (last'.outcome = "ok" /\ last'.sig = Sign(key, noted'.arg))
      ]_vars

\* ------------------------------------------------------------------ C19
\* C19: every record AddMessage writes has the hash of its value as key and
\* the unsigned-message bytes as value, the cache entry of the call is filed
\* under that same hash, and every decodable record of the store has the
\* hash of its value as key.
C19_KeyIsHashOfValue ==
    [][ /\ \A id \in DOMAIN db' :
             ParseUnsignedMessage(db'[id]).ok
                => id = ComputeHash256Array(db'[id])
        /\ (backend = "warp" /\ last'.op = "AddMessage")
             => /\ \A id \in DOMAIN db' :
                     (~ dbHas(db, id) \/ db'[id] # db[id])
                        => /\ db'[id] = Bytes(last'.arg)
                           /\ id = ComputeHash256Array(db'[id])
                /\ "db.Put" \in Events(last') /\ last'.outcome # "StoreError"
                     => dbHas(db', ComputeHash256Array(Bytes(last'.arg)))
                /\ last'.outcome = "ok"
                     => \E id \in DOMAIN db' :
                          /\ db'[id] = Bytes(last'.arg)
                          /\ cache'[1].key = IDKey(ComputeHash256Array(db'[id]))
      ]_vars

C19_Witness ==
    /\ backend = "warp"
    /\ last.op = "AddMessage" /\ last.outcome = "ok"
    /\ Cardinality(DOMAIN db) >= 2
    /\ \A id \in DOMAIN db : ParseUnsignedMessage(db[id]).ok
    /\ cache # << >> /\ cache[1].key = IDKey(MsgID(last.arg))

\* ------------------------------------------------------------------ C18
\* C18: however the store and cache operations of concurrent AddMessage and
\* GetSignature calls interleave, every cache entry is filed under the ID of
\* a record present in the store and holds the share over that record's
\* message, and a share returned by GetSignature(id) is the share over the
\* message stored under id.
C18_InterleavingsKeepShares ==
    /\ \A i \in 1..Len(cache) :
         /\ dbHas(db, cache[i].key.h)
         /\ ParseUnsignedMessage(db[cache[i].key.h]).ok
         /\ cache[i].val = Sign(key, ParseUnsignedMessage(db[cache[i].key.h]).msg)
    /\ (last.op = "GetSignature" /\ last.outcome = "ok")
         => /\ dbHas(db, last.arg)
            /\ last.sig = Sign(key, ParseUnsignedMessage(db[last.arg]).msg)
    /\ \A t \in Threads :
         (thr[t].op = "GetSignature" /\ thr[t].sig # NoSig)
            => /\ dbHas(db, thr[t].arg)
               /\ thr[t].sig = Sign(key, ParseUnsignedMessage(db[thr[t].arg]).msg)

\* An AddMessage(m) has written the record and not yet the cache entry while
\* a GetSignature for the same message has read, signed and returned.
C18_Witness ==
    \E t \in Threads :
        /\ thr[t].op = "AddMessage"
        /\ AddMessageOps[thr[t].pc] = "cache.Put"
        /\ last.op = "GetSignature" /\ last.outcome = "ok"
        /\ last.arg = MsgID(thr[t].arg)
        /\ \E u \in Threads \ {t} : thr[u].op = "GetSignature"

\* ------------------------------------------------------------------ C23
\* C23: a GetSignature call, whatever it returns, leaves the set of stored
\* records and every record as they were, and an AddMessage(m) call neither
\* adds, removes nor changes the record of any message other than m.
C23_StoreFrame ==
    [][ /\ (backend = "warp" /\ last'.op = "GetSignature") => db' = db
        /\ (backend = "warp" /\ last'.op = "AddMessage")
             => \A id \in ((DOMAIN db) \cup (DOMAIN db')) \ {MsgID(last'.arg)} :
                  /\ dbHas(db, id)
                  /\ dbHas(db', id)
                  /\ db'[id] = db[id]
      ]_vars

\* A GetSignature that went to the store, after AddMessage calls that left
\* the records of two messages.
C23_Witness ==
    /\ backend = "warp"
    /\ last.op = "GetSignature" /\ "db.Get" \in Events(last)
    /\ noted.op = "AddMessage" /\ ~ noted.restarted
    /\ Cardinality(DOMAIN db) >= 2

\* ------------------------------------------------------------------ C22
\* C22: when the setup has returned an error, no client has been started
\* and no aggregation loop has been created.
C22_FailedSetupLeavesNothing ==
    setup.pc = "failed" => (DOMAIN vindex = {} /\ agg = "none")

\* ============================================================= workers
\* Worker w receives the next aggregate of its output stream. A receive on
\* a Go channel hands each value to one receiver. Workers exist once the
\* setup has returned them and stop when ctx is cancelled.
Receive(w) ==
    /\ setup.pc = "done"
    /\ ending # "cancelled"
    /\ LET s == SignedMessagesOf(w) IN
       /\ cursor[s] < Len(emitted)
       /\ cursor' = [cursor EXCEPT ![s] = @ + 1]
       /\ received' = [received EXCEPT ![w] = @ \cup {emitted[cursor[s] + 1]}]
    /\ UNCHANGED rvars
    /\ UNCHANGED << vars, thr >>

WorkerReceive == \E w \in Workers : Receive(w)

\* The session the workers are followed in: the setup, clients that stay up
\* and deliver, a share channel that stays open, and the cancellation.
WorkerNext ==
    \/ DialEndpoints
    \/ StartClient
    \/ StartRelay
    \/ DeliverShare
    \/ Cancel
    \/ ExitLoop
    \/ WorkerReceive

wvars == << rvars, ovars >>

WorkerSpec == RelayInit /\ [][WorkerNext]_wvars

\* Workers keep receiving: an aggregate waiting on the output stream of a
\* receiving worker is eventually taken.
FairWorkerSpec ==
    /\ WorkerSpec
    /\ WF_wvars(WorkerReceive)

\* The workers that hold the aggregate a.
Holders(a) == { w \in Workers : a \in received[w] }

\* ------------------------------------------------------------------ C21
\* C21: no aggregate is received by two workers, a worker receives only
\* aggregates the aggregator published, and every published aggregate is
\* eventually received by a worker unless the workers are stopped by the
\* cancellation.
C21_OneWorkerPerAggregate ==
    /\ [](\A i \in 1..Len(emitted) : Cardinality(Holders(emitted[i])) <= 1)
    /\ [](\A w \in Workers :
            \A a \in received[w] : \E i \in 1..Len(emitted) : emitted[i] = a)
    /\ \A m \in RelayMsgs :
         (m \in complete)
            ~> (\/ \E i \in 1..Len(emitted) :
                      emitted[i].id = m /\ Holders(emitted[i]) # {}
                \/ ending = "cancelled")

\* One worker holds an aggregate while another, still receiving, holds none.
C21_Witness ==
    /\ ending = "none"
    /\ \E w \in Workers : received[w] # {}
    /\ \E w \in Workers : received[w] = {}
    /\ \A i \in 1..Len(emitted) : Cardinality(Holders(emitted[i])) = 1

====
